---- MODULE Spec2Model ----
(***************************************************************************)
(* Model of main.py: a BLE heart-rate monitor.  One run of main() scans    *)
(* for Heart Rate Service peripherals, lets the operator select one,       *)
(* connects, opens a CSV file, subscribes to Heart Rate Measurement        *)
(* notifications, parses and stores each one, and tears down in the        *)
(* finally block.                                                          *)
(*                                                                         *)
(* Environment assumptions of the model:                                   *)
(*  - the event loop runs callbacks only while main() is suspended at an   *)
(*    await (scan sleep, start_notify, streaming sleep, disconnect);       *)
(*  - a write to an open file succeeds;                                    *)
(*  - datetime.now() is a logical clock: the arrival index of the          *)
(*    notification being handled;                                          *)
(*  - a link that is down never comes back up (no reconnect in the code).  *)
(***************************************************************************)
EXTENDS Integers, Sequences, FiniteSets, TLC

VARIABLES
    pc,                  \* control position of main()
    route,               \* how main() reached its finally block (history variable)
    adverts,             \* advertisements delivered to detection_callback (history variable)
    devices_dict,        \* scan_for_heart_rate_devices.devices_dict, in insertion order
    selected_device,     \* main.selected_device: <<>> (None) or <<device>>
    monitor_client,      \* monitor.client is set
    link,                \* transport link: "none", "up", "down" (client.is_connected = (link = "up"))
    subscribed,          \* start_notify has registered notification_handler
    disconnect_called,   \* client.disconnect() has been called (history variable)
    heart_rate_history,  \* monitor.heart_rate_history
    csv_file,            \* monitor.csv_file: "none", "open", "closed"
    csv_writer,          \* monitor.csv_writer is set
    csv_rows,            \* rows written to the CSV file
    close_calls,         \* number of calls of monitor.close_csv_file() (history variable)
    delivered,           \* payloads delivered to notification_handler (history variable)
    data,                \* argument of the last parse_heart_rate_data call
    parsed_data          \* its result: <<>> (no call yet) or <<result>>

vars == <<pc, route, adverts, devices_dict, selected_device, monitor_client, link,
          subscribed, disconnect_called, heart_rate_history, csv_file, csv_writer,
          csv_rows, close_calls, delivered, data, parsed_data>>

---------------------------------------------------------------------------
(* Bounds of the model. *)

MaxAdverts == 2

MaxNotifs == 2

MaxPayloadLen == 4

MaxAppends == 1002

MaxCloses == 2

(* Program constants. *)

HistoryLimit == 1000

HistoryKeep == 500

ByteSize == 256

Addresses == {"C8:0F:10:00:00:01", "C8:0F:10:00:00:02"}

Names == {"Mi Band", "Band 7"}

\* An advertisement: the device object and whether HRS_UUID is among its service uuids.
Adverts == [address : Addresses, name : Names, hrs : BOOLEAN]

\* Payloads delivered while streaming: empty, one byte, 8-bit, 16-bit flag with and
\* without the high byte.
NotifyPayloads == {<<>>, <<0, 72>>, <<1, 80>>, <<5, 80, 1>>}

FlagVals == (0 .. 7) \cup {16, 22, 255}

ByteVals == {0, 1, 80, 255}

RECURSIVE SeqsUpTo(_, _)
SeqsUpTo(S, n) ==
    IF n = 0 THEN {<<>>}
    ELSE LET shorter == SeqsUpTo(S, n - 1)
         IN  shorter \cup {Append(s, x) : s \in {t \in shorter : Len(t) = n - 1}, x \in S}

\* Payloads given to the parser alone: a flags byte followed by up to
\* MaxPayloadLen - 1 bytes, and the empty payload.
ParsePayloads ==
    {<<>>} \cup {<<f>> \o t : f \in FlagVals, t \in SeqsUpTo(ByteVals, MaxPayloadLen - 1)}

LongPayloads == {<<0, 72>>}

LongAdverts == {[address |-> "C8:0F:10:00:00:01", name |-> "Mi Band", hrs |-> TRUE]}

---------------------------------------------------------------------------
(* Bit operations on naturals, as Python's & and | , << on ints. *)

RECURSIVE BitAnd(_, _)
BitAnd(a, b) ==
    IF a = 0 \/ b = 0 THEN 0
    ELSE (a % 2) * (b % 2) + 2 * BitAnd(a \div 2, b \div 2)

RECURSIVE BitOr(_, _)
BitOr(a, b) ==
    IF a = 0 THEN b
    ELSE IF b = 0 THEN a
    ELSE (IF a % 2 = 1 \/ b % 2 = 1 THEN 1 ELSE 0) + 2 * BitOr(a \div 2, b \div 2)

ShiftLeft8(b) == b * ByteSize

---------------------------------------------------------------------------
(* HeartRateMonitor.parse_heart_rate_data *)

\* Faulty variant: the two value bytes taken in the wrong order.
heart_rate_value_big_endian(d) ==
    IF BitAnd(d[1], 1) # 0 /\ Len(d) >= 3
    THEN BitOr(d[3], ShiftLeft8(d[2]))
    ELSE d[2]

\* Lines 37-44: the heart-rate value.  Byte 1, and the third byte or-ed in as the
\* high byte only when flag bit 0 is set and the payload has a third byte.
heart_rate_value(d) ==
    IF BitAnd(d[1], 1) # 0 /\ Len(d) >= 3
    THEN BitOr(d[2], ShiftLeft8(d[3]))
    ELSE d[2]

\* Faulty variant: bit 1 read without looking at the support bit.
sensor_contact_unguarded(flag) ==
    IF BitAnd(flag, 2) # 0 THEN "True" ELSE "False"

\* Lines 46-49: None unless flag bit 2 is set, else bool(flag & 0b00010).
sensor_contact(flag) ==
    IF BitAnd(flag, 4) # 0
    THEN (IF BitAnd(flag, 2) # 0 THEN "True" ELSE "False")
    ELSE "None"

\* Lines 34-35: the length check.
too_short(d) ==
    Len(d) < 2

\* Faulty variant: a short payload yields a default sample instead of the error.
parse_heart_rate_data_default_sample(d, now) ==
    IF too_short(d)
    THEN [heart_rate |-> 0, sensor_contact |-> "None", flag |-> 0, timestamp |-> now]
    ELSE [heart_rate     |-> heart_rate_value(d),
          sensor_contact |-> sensor_contact(d[1]),
          flag           |-> d[1],
          timestamp      |-> now]

\* The dict returned: {"error": ...} or the sample; now stands for datetime.now().
parse_heart_rate_data(d, now) ==
    IF too_short(d)
    THEN [error |-> "too short"]
    ELSE [heart_rate     |-> heart_rate_value(d),
          sensor_contact |-> sensor_contact(d[1]),
          flag           |-> d[1],
          timestamp      |-> now]

\* Line 147: "error" not in parsed_data.
IsError(r) == "error" \in DOMAIN r

---------------------------------------------------------------------------
(* HeartRateMonitor.save_heart_rate_data, init_csv_file, close_csv_file *)

LastK(h, k) == SubSeq(h, Len(h) - k + 1, Len(h))

\* Faulty variant: the cut keeps the oldest 500 instead of the newest.
trim_history_keeps_oldest(h) ==
    IF Len(h) > HistoryLimit THEN SubSeq(h, 1, HistoryKeep) ELSE h

\* Lines 69-70: cut to the last 500 once the length exceeds 1000.
trim_history(h) ==
    IF Len(h) > HistoryLimit THEN LastK(h, HistoryKeep) ELSE h

\* Line 29: the header row.
HeaderRow == <<"time", "rate">>

\* Faulty variant: the row is not written.
csv_row_dropped(rows, sample, now) ==
    rows

\* Lines 64-65: the data row of a sample; now stands for datetime.now().
csv_row(rows, sample, now) ==
    Append(rows, <<now, sample.heart_rate>>)

\* Faulty variant: the trim of the history also cuts the rows of the file.
save_heart_rate_data_trims_rows(history, rows, writer, file, sample, now) ==
    LET appended == Append(history, sample)
        written  == csv_row(rows, sample, now)
    IN  IF ~writer
        THEN [history |-> trim_history(appended), rows |-> rows]
        ELSE IF file = "open"
        THEN [history |-> trim_history(appended),
              rows |-> IF Len(appended) > HistoryLimit
                       THEN <<HeaderRow>> \o LastK(written, HistoryKeep)
                       ELSE written]
        ELSE [history |-> appended, rows |-> rows]

\* Lines 58-70 as a function of the monitor's fields: the new history and rows.
\* Writing through a writer whose file is closed raises ValueError after the
\* append and before the trim (the caller catches it, line 155).
save_heart_rate_data(history, rows, writer, file, sample, now) ==
    LET appended == Append(history, sample)
    IN  IF ~writer
        THEN [history |-> trim_history(appended), rows |-> rows]
        ELSE IF file = "open"
        THEN [history |-> trim_history(appended), rows |-> csv_row(rows, sample, now)]
        ELSE [history |-> appended, rows |-> rows]

\* The device object of an advertisement (lines 84, 89).
Device(ad) == [address |-> ad.address, name |-> ad.name]

HasAddress(devs, a) == \E i \in 1 .. Len(devs) : devs[i].address = a

\* Faulty variant: the advertised services are not looked at.
detection_callback_ignores_services(devs, ad) ==
    IF ~HasAddress(devs, ad.address) THEN Append(devs, Device(ad)) ELSE devs

\* Faulty variant: a later advertisement replaces the entry of its address.
detection_callback_last_wins(devs, ad) ==
    IF ad.hrs
    THEN IF HasAddress(devs, ad.address)
         THEN [i \in 1 .. Len(devs) |->
                  IF devs[i].address = ad.address THEN Device(ad) ELSE devs[i]]
         ELSE Append(devs, Device(ad))
    ELSE devs

\* Lines 84-90: detection_callback on the ordered dict of devices.
detection_callback(devs, ad) ==
    IF ad.hrs
    THEN IF ~HasAddress(devs, ad.address) THEN Append(devs, Device(ad)) ELSE devs
    ELSE devs

\* Faulty variant: no guard, so only an open file can be closed without an error.
close_csv_file_unguarded(file) ==
    IF file = "open" THEN "closed" ELSE "error"

\* Lines 72-76: close_csv_file on the file field (closing a closed file is a no-op).
close_csv_file(file) ==
    IF file # "none" THEN "closed" ELSE file

---------------------------------------------------------------------------
(* The run of main(): state after HeartRateMonitor() (lines 14-21, 196). *)

Init ==
    /\ pc = "start"
    /\ route = "none"
    /\ adverts = <<>>
    /\ devices_dict = <<>>
    /\ selected_device = <<>>
    /\ monitor_client = FALSE
    /\ link = "none"
    /\ subscribed = FALSE
    /\ disconnect_called = FALSE
    /\ heart_rate_history = <<>>
    /\ csv_file = "none"
    /\ csv_writer = FALSE
    /\ csv_rows = <<>>
    /\ close_calls = 0
    /\ delivered = <<>>
    /\ data = <<>>
    /\ parsed_data = <<>>

scan_vars == <<adverts, devices_dict>>

conn_vars == <<selected_device, monitor_client, link, subscribed, disconnect_called>>

store_vars == <<heart_rate_history, csv_file, csv_writer, csv_rows, close_calls, delivered,
                data, parsed_data>>

\* Lines 196-203: main() starts and calls scan_for_heart_rate_devices().
main_begin ==
    /\ pc = "start"
    /\ pc' = "scan_begin"
    /\ UNCHANGED <<route, scan_vars, conn_vars, store_vars>>

\* Lines 92-93: scanner.start() returns; main() sleeps for the scan window.
scanner_start ==
    /\ pc = "scan_begin"
    /\ pc' = "scanning"
    /\ UNCHANGED <<route, scan_vars, conn_vars, store_vars>>

\* Line 93 raising (no adapter): caught at line 231.
scanner_start_fails ==
    /\ pc = "scan_begin"
    /\ pc' = "finally"
    /\ route' = "scan_failed"
    /\ UNCHANGED <<scan_vars, conn_vars, store_vars>>

\* Lines 84-90: the transport calls detection_callback during the scan window.
advertisement(ad) ==
    /\ pc = "scanning"
    /\ adverts' = Append(adverts, ad)
    /\ devices_dict' = detection_callback(devices_dict, ad)
    /\ UNCHANGED <<pc, route, conn_vars, store_vars>>

\* Faulty variant: the file is opened before the scan result is looked at.
scanner_stop_opens_file ==
    /\ pc = "scanning"
    /\ csv_file' = "open"
    /\ csv_writer' = TRUE
    /\ csv_rows' = <<HeaderRow>>
    /\ IF devices_dict = <<>>
       THEN pc' = "finally" /\ route' = "no_devices"
       ELSE pc' = "select" /\ UNCHANGED route
    /\ UNCHANGED <<scan_vars, conn_vars, heart_rate_history, close_calls, delivered, data,
                   parsed_data>>

\* Lines 95-97, 205-207: the window elapses; no devices ends the run.
scanner_stop ==
    /\ pc = "scanning"
    /\ IF devices_dict = <<>>
       THEN pc' = "finally" /\ route' = "no_devices"
       ELSE pc' = "select" /\ UNCHANGED route
    /\ UNCHANGED <<scan_vars, conn_vars, store_vars>>

\* Lines 112-117: a number in range selects that device.
show_device_selection(choice_num) ==
    /\ pc = "select"
    /\ 1 <= choice_num /\ choice_num <= Len(devices_dict)
    /\ selected_device' = <<devices_dict[choice_num]>>
    /\ pc' = "connecting"
    /\ UNCHANGED <<route, scan_vars, monitor_client, link, subscribed, disconnect_called,
                   store_vars>>

\* Lines 118-121: out of range or not a number prompts again.
invalid_choice ==
    /\ pc = "select"
    /\ UNCHANGED vars

\* Lines 122-124, 211-212: KeyboardInterrupt at the prompt returns None.
selection_cancelled ==
    /\ pc = "select"
    /\ pc' = "finally"
    /\ route' = "cancel"
    /\ UNCHANGED <<scan_vars, conn_vars, store_vars>>

\* Lines 131-134, 216-221: connect() succeeds; the monitor takes the client.
connect_ok ==
    /\ pc = "connecting"
    /\ link' = "up"
    /\ monitor_client' = TRUE
    /\ pc' = "connected"
    /\ UNCHANGED <<route, scan_vars, selected_device, subscribed, disconnect_called,
                   store_vars>>

\* Faulty variant: the file is opened before the connect is known to have failed.
connect_fails_after_open ==
    /\ pc = "connecting"
    /\ csv_file' = "open"
    /\ csv_writer' = TRUE
    /\ csv_rows' = <<HeaderRow>>
    /\ pc' = "finally"
    /\ route' = "connect_failed"
    /\ UNCHANGED <<scan_vars, conn_vars, heart_rate_history, close_calls, delivered,
                   data, parsed_data>>

\* Faulty variant: a failed connect goes back to the selection prompt.
connect_fails_retries ==
    /\ pc = "connecting"
    /\ pc' = "select"
    /\ UNCHANGED <<route, scan_vars, conn_vars, store_vars>>

\* Lines 135-137, 216-217: connect() raises; connect_to_device returns None.
connect_fails ==
    /\ pc = "connecting"
    /\ pc' = "finally"
    /\ route' = "connect_failed"
    /\ UNCHANGED <<scan_vars, conn_vars, store_vars>>

\* Faulty variant: the file is opened without its header row.
init_csv_file_no_header ==
    /\ pc = "connected"
    /\ csv_file' = "open"
    /\ csv_writer' = TRUE
    /\ csv_rows' = <<>>
    /\ pc' = "lookup"
    /\ UNCHANGED <<route, scan_vars, conn_vars, heart_rate_history, close_calls, delivered,
                   data, parsed_data>>

\* Lines 23-30, 224: the file is opened for writing and the header row written.
init_csv_file ==
    /\ pc = "connected"
    /\ csv_file' = "open"
    /\ csv_writer' = TRUE
    /\ csv_rows' = <<HeaderRow>>
    /\ pc' = "lookup"
    /\ UNCHANGED <<route, scan_vars, conn_vars, heart_rate_history, close_calls, delivered,
                   data, parsed_data>>

\* Faulty variant: the failure to open is swallowed and the run goes on.
init_csv_file_fails_continues ==
    /\ pc = "connected"
    /\ pc' = "lookup"
    /\ route' = "csv_failed"
    /\ UNCHANGED <<scan_vars, conn_vars, store_vars>>

\* Line 27 raising (open fails): caught at line 231.
init_csv_file_fails ==
    /\ pc = "connected"
    /\ pc' = "finally"
    /\ route' = "csv_failed"
    /\ UNCHANGED <<scan_vars, conn_vars, store_vars>>

\* Lines 160-181: the service and the characteristic are found.
characteristic_found ==
    /\ pc = "lookup"
    /\ pc' = "subscribe"
    /\ UNCHANGED <<route, scan_vars, conn_vars, store_vars>>

\* Lines 168-170, 179-181: one of them is missing; the function returns.
characteristic_missing ==
    /\ pc = "lookup"
    /\ pc' = "finally"
    /\ route' = "no_service"
    /\ UNCHANGED <<scan_vars, conn_vars, store_vars>>

\* Line 184: start_notify returns with the handler registered.
start_notify_ok ==
    /\ pc = "subscribe"
    /\ subscribed' = TRUE
    /\ pc' = "streaming"
    /\ UNCHANGED <<route, scan_vars, selected_device, monitor_client, link,
                   disconnect_called, store_vars>>

\* Line 184 raising: caught at line 191; the function returns.
start_notify_fails ==
    /\ pc = "subscribe"
    /\ pc' = "finally"
    /\ route' = "subscribe_failed"
    /\ UNCHANGED <<scan_vars, conn_vars, store_vars>>

\* Faulty variant: a notification that fails to parse ends the subscription.
notification_handler_stops_on_error(payload) ==
    /\ pc \in {"streaming", "disconnecting"}
    /\ subscribed
    /\ link = "up"
    /\ LET now    == Len(delivered) + 1
           parsed == parse_heart_rate_data(payload, now)
           saved  == save_heart_rate_data(heart_rate_history, csv_rows, csv_writer,
                                          csv_file, parsed, now)
       IN  /\ delivered' = Append(delivered, payload)
           /\ data' = payload
           /\ parsed_data' = <<parsed>>
           /\ IF IsError(parsed)
              THEN /\ subscribed' = FALSE
                   /\ UNCHANGED <<heart_rate_history, csv_rows>>
              ELSE /\ heart_rate_history' = saved.history
                   /\ csv_rows' = saved.rows
                   /\ UNCHANGED subscribed
    /\ UNCHANGED <<pc, route, scan_vars, selected_device, monitor_client, link,
                   disconnect_called, csv_file, csv_writer, close_calls>>

\* Lines 143-156: the transport calls notification_handler while main() is
\* suspended with the subscription live.
notification_handler(payload) ==
    /\ pc \in {"streaming", "disconnecting"}
    /\ subscribed
    /\ link = "up"
    /\ LET now    == Len(delivered) + 1
           parsed == parse_heart_rate_data(payload, now)
           saved  == save_heart_rate_data(heart_rate_history, csv_rows, csv_writer,
                                          csv_file, parsed, now)
       IN  /\ delivered' = Append(delivered, payload)
           /\ data' = payload
           /\ parsed_data' = <<parsed>>
           /\ IF IsError(parsed)
              THEN UNCHANGED <<heart_rate_history, csv_rows>>
              ELSE /\ heart_rate_history' = saved.history
                   /\ csv_rows' = saved.rows
    /\ UNCHANGED <<pc, route, scan_vars, conn_vars, csv_file, csv_writer, close_calls>>

\* The transport loses the link (the peripheral goes away).
link_loss ==
    /\ link = "up"
    /\ pc # "done"
    /\ link' = "down"
    /\ UNCHANGED <<pc, route, scan_vars, selected_device, monitor_client, subscribed,
                   disconnect_called, store_vars>>

\* Lines 188-189: the poll finds the client connected and sleeps again.
poll_connected ==
    /\ pc = "streaming"
    /\ link = "up"
    /\ UNCHANGED vars

\* Faulty variant: the poll does not look at the link and sleeps again.
poll_disconnected_keeps_polling ==
    /\ pc = "streaming"
    /\ link # "up"
    /\ UNCHANGED vars

\* Line 188: the poll finds the client disconnected; the loop and the function end.
poll_disconnected ==
    /\ pc = "streaming"
    /\ link # "up"
    /\ pc' = "finally"
    /\ route' = "link_loss"
    /\ UNCHANGED <<scan_vars, conn_vars, store_vars>>

\* Lines 188-192: an exception in the loop is caught; the function returns.
streaming_error ==
    /\ pc = "streaming"
    /\ pc' = "finally"
    /\ route' = "stream_error"
    /\ UNCHANGED <<scan_vars, conn_vars, store_vars>>

InterruptRoute(at) ==
    CASE at = "scanning"   -> "interrupt_scan"
      [] at = "connecting" -> "interrupt_connect"
      [] at = "subscribe"  -> "interrupt_subscribe"
      [] at = "streaming"  -> "interrupt_stream"

\* Lines 94, 132, 184, 189, 229-233: an interrupt while main() is suspended at an
\* await unwinds to the finally block.
keyboard_interrupt ==
    /\ pc \in {"scanning", "connecting", "subscribe", "streaming"}
    /\ pc' = "finally"
    /\ route' = InterruptRoute(pc)
    /\ UNCHANGED <<scan_vars, conn_vars, store_vars>>

\* Lines 235-236: disconnect is requested only when the client is still connected.
finally_block ==
    /\ pc = "finally"
    /\ IF monitor_client /\ link = "up"
       THEN pc' = "disconnecting" /\ disconnect_called' = TRUE
       ELSE pc' = "close_csv" /\ UNCHANGED disconnect_called
    /\ UNCHANGED <<route, scan_vars, selected_device, monitor_client, link, subscribed,
                   store_vars>>

\* Lines 236-237: disconnect() returns.
disconnect_ok ==
    /\ pc = "disconnecting"
    /\ link' = "down"
    /\ subscribed' = FALSE
    /\ pc' = "close_csv"
    /\ UNCHANGED <<route, scan_vars, selected_device, monitor_client, disconnect_called,
                   store_vars>>

\* Line 236 raising: the exception leaves the finally block and main(); line 240
\* is not reached.  The link is left up or down.
disconnect_raises ==
    /\ pc = "disconnecting"
    /\ link' \in {link, "down"}
    /\ pc' = "done"
    /\ UNCHANGED <<route, scan_vars, selected_device, monitor_client, subscribed,
                   disconnect_called, store_vars>>

\* Line 240: monitor.close_csv_file(); main() returns.
finally_close ==
    /\ pc = "close_csv"
    /\ csv_file' = close_csv_file(csv_file)
    /\ close_calls' = close_calls + 1
    /\ pc' = "done"
    /\ UNCHANGED <<route, scan_vars, conn_vars, heart_rate_history, csv_writer, csv_rows,
                   delivered, data, parsed_data>>

Advertise ==
    /\ Len(adverts) < MaxAdverts
    /\ \E ad \in Adverts : advertisement(ad)

Select ==
    \E choice_num \in 1 .. MaxAdverts : show_device_selection(choice_num)

Notify ==
    /\ Len(delivered) < MaxNotifs
    /\ \E payload \in NotifyPayloads : notification_handler(payload)

Next ==
    \/ main_begin
    \/ scanner_start
    \/ scanner_start_fails
    \/ Advertise
    \/ scanner_stop
    \/ Select
    \/ invalid_choice
    \/ selection_cancelled
    \/ connect_ok
    \/ connect_fails
    \/ init_csv_file
    \/ init_csv_file_fails
    \/ characteristic_found
    \/ characteristic_missing
    \/ start_notify_ok
    \/ start_notify_fails
    \/ Notify
    \/ link_loss
    \/ poll_connected
    \/ poll_disconnected
    \/ streaming_error
    \/ keyboard_interrupt
    \/ finally_block
    \/ disconnect_ok
    \/ disconnect_raises
    \/ finally_close

Spec == Init /\ [][Next]_vars

---------------------------------------------------------------------------
(* The history buffer over a long stream: one device, one well-formed payload, *)
(* up to MaxAppends notifications.                                            *)

LongAdvertise ==
    /\ Len(adverts) < MaxAdverts
    /\ \E ad \in LongAdverts : advertisement(ad)

LongNotify ==
    /\ Len(delivered) < MaxAppends
    /\ \E payload \in LongPayloads : notification_handler(payload)

NextLong ==
    \/ main_begin
    \/ scanner_start
    \/ LongAdvertise
    \/ scanner_stop
    \/ Select
    \/ connect_ok
    \/ init_csv_file
    \/ characteristic_found
    \/ start_notify_ok
    \/ LongNotify
    \/ link_loss
    \/ poll_disconnected
    \/ finally_block
    \/ finally_close

SpecLong == Init /\ [][NextLong]_vars

---------------------------------------------------------------------------
(* The run of one device under the scheduling of the code: the sleep of the     *)
(* streaming poll returns and the loop condition is evaluated again (line 188), *)
(* and the synchronous steps of the finally block are executed (lines 235-240). *)

NextLive ==
    \/ main_begin
    \/ scanner_start
    \/ scanner_start_fails
    \/ LongAdvertise
    \/ scanner_stop
    \/ Select
    \/ invalid_choice
    \/ selection_cancelled
    \/ connect_ok
    \/ connect_fails
    \/ init_csv_file
    \/ init_csv_file_fails
    \/ characteristic_found
    \/ characteristic_missing
    \/ start_notify_ok
    \/ start_notify_fails
    \/ Notify
    \/ link_loss
    \/ poll_connected
    \/ poll_disconnected
    \/ streaming_error
    \/ keyboard_interrupt
    \/ finally_block
    \/ disconnect_ok
    \/ disconnect_raises
    \/ finally_close

SpecLive ==
    /\ Init
    /\ [][NextLive]_vars
    /\ WF_vars(poll_disconnected)
    /\ WF_vars(finally_block)
    /\ WF_vars(finally_close)

---------------------------------------------------------------------------
(* The run followed by further calls of monitor.close_csv_file(). *)

close_csv_file_again ==
    /\ pc = "done"
    /\ close_calls < MaxCloses
    /\ csv_file' = close_csv_file(csv_file)
    /\ close_calls' = close_calls + 1
    /\ UNCHANGED <<pc, route, scan_vars, conn_vars, heart_rate_history, csv_writer,
                   csv_rows, delivered, data, parsed_data>>

NextClose ==
    \/ Next
    \/ close_csv_file_again

SpecClose == Init /\ [][NextClose]_vars

---------------------------------------------------------------------------
(* The parser alone: one call on each payload of ParsePayloads. *)

InitParse ==
    /\ pc = "start"
    /\ route = "none"
    /\ adverts = <<>>
    /\ devices_dict = <<>>
    /\ selected_device = <<>>
    /\ monitor_client = FALSE
    /\ link = "none"
    /\ subscribed = FALSE
    /\ disconnect_called = FALSE
    /\ heart_rate_history = <<>>
    /\ csv_file = "none"
    /\ csv_writer = FALSE
    /\ csv_rows = <<>>
    /\ close_calls = 0
    /\ delivered = <<>>
    /\ data \in ParsePayloads
    /\ parsed_data = <<>>

parse_call ==
    /\ parsed_data = <<>>
    /\ parsed_data' = <<parse_heart_rate_data(data, 1)>>
    /\ UNCHANGED <<pc, route, scan_vars, conn_vars, heart_rate_history, csv_file,
                   csv_writer, csv_rows, close_calls, delivered, data>>

NextParse == parse_call

SpecParse == InitParse /\ [][NextParse]_vars

---------------------------------------------------------------------------
(* Properties. *)

\* Arrival indices of the delivered payloads that are long enough to parse.
AcceptedIndices ==
    SelectSeq([i \in 1 .. Len(delivered) |-> i], LAMBDA i : Len(delivered[i]) >= 2)

DataRows == IF csv_rows = <<>> THEN <<>> ELSE SubSeq(csv_rows, 2, Len(csv_rows))

\* C1: the history never holds more than 1000 samples; it always holds the most
\* recently appended samples in arrival order, all of them up to 1000 appends, and
\* the append that makes it 1001 long cuts it to the last 500 (so after 1001
\* appends it holds samples 502..1001).
C1_HistoryBounded ==
    LET acc == AcceptedIndices
        n   == Len(acc)
        h   == heart_rate_history
    IN  /\ Len(h) <= HistoryLimit
        /\ Len(h) <= n
        /\ \A i \in 1 .. Len(h) : h[i].timestamp = acc[n - Len(h) + i]
        /\ (n <= HistoryLimit => Len(h) = n)
        /\ (n = HistoryLimit + 1 => Len(h) = HistoryKeep)
        /\ (n > HistoryLimit /\ n <= HistoryLimit + HistoryKeep + 1
               => Len(h) = n - (HistoryLimit + 1 - HistoryKeep))

C1_Witness ==
    /\ Len(delivered) = HistoryLimit + 1
    /\ Len(heart_rate_history) = HistoryKeep
    /\ heart_rate_history[1].timestamp = HistoryLimit + 2 - HistoryKeep
    /\ heart_rate_history[HistoryKeep].timestamp = HistoryLimit + 1

\* C2: every sample appended to the history is written to the CSV file exactly
\* once and in arrival order: there is one data row per accepted notification,
\* row k carries the arrival time of the k-th accepted notification, and the rows
\* of the samples still in the history carry their heart rates in the same order.
C2_RowsMatchHistory ==
    LET acc  == AcceptedIndices
        rows == DataRows
        h    == heart_rate_history
    IN  /\ Len(rows) = Len(acc)
        /\ \A k \in 1 .. Len(rows) : rows[k][1] = acc[k]
        /\ Len(h) <= Len(rows)
        /\ \A k \in 1 .. Len(h) :
              rows[Len(rows) - Len(h) + k] = <<h[k].timestamp, h[k].heart_rate>>

C2_Witness ==
    /\ Len(heart_rate_history) = 2
    /\ heart_rate_history[1].heart_rate # heart_rate_history[2].heart_rate
    /\ Len(delivered) = 2
    /\ csv_rows = <<HeaderRow, <<1, heart_rate_history[1].heart_rate>>,
                    <<2, heart_rate_history[2].heart_rate>>>>

\* The first advertisement of address a that carries the Heart Rate Service.
FirstAccepted(a) ==
    LET idx == {k \in 1 .. Len(adverts) : adverts[k].hrs /\ adverts[k].address = a}
    IN  IF idx = {} THEN <<>>
        ELSE <<Device(adverts[CHOOSE k \in idx : \A m \in idx : k <= m])>>

\* C3: the scan result never holds two devices with the same address, and the
\* entry of an address is the device of the first accepted advertisement of that
\* address.
C3_DedupFirstSeen ==
    /\ \A i, j \in 1 .. Len(devices_dict) :
          devices_dict[i].address = devices_dict[j].address => i = j
    /\ \A i \in 1 .. Len(devices_dict) :
          FirstAccepted(devices_dict[i].address) = <<devices_dict[i]>>

C3_Witness ==
    /\ pc = "select"
    /\ Len(adverts) = 2
    /\ adverts[1].hrs /\ adverts[2].hrs
    /\ adverts[1].address = adverts[2].address
    /\ adverts[1].name # adverts[2].name
    /\ devices_dict = <<Device(adverts[1])>>

Parsed == parsed_data[1]

Bit(flag, k) == (flag \div (2 ^ k)) % 2

\* C4: with flag bit 0 set and fewer than 3 bytes, parsing fails.
C4_ShortSixteenBitFails ==
    (parsed_data # <<>> /\ Len(data) >= 1 /\ Bit(data[1], 0) = 1 /\ Len(data) < 3)
        => IsError(Parsed)

\* C5: with bit 0 clear and at least 2 bytes the heart rate is byte 1; with bit 0
\* set and at least 3 bytes it is byte 1 + 256 * byte 2, within 0..65535; nothing
\* else of the payload enters it.
C5_HeartRateValue ==
    parsed_data # <<>> =>
        /\ (Len(data) >= 2 /\ Bit(data[1], 0) = 0)
              => (~IsError(Parsed) /\ Parsed.heart_rate = data[2])
        /\ (Len(data) >= 3 /\ Bit(data[1], 0) = 1)
              => /\ ~IsError(Parsed)
                 /\ Parsed.heart_rate = data[2] + 256 * data[3]
                 /\ Parsed.heart_rate \in 0 .. 65535

C5_Witness ==
    /\ parsed_data # <<>>
    /\ Len(data) = 4
    /\ data[1] = 5 /\ data[2] = 80 /\ data[3] = 1 /\ data[4] = 255
    /\ Parsed.heart_rate = 336

\* C6: the sensor contact of a parsed sample is None (unsupported) when flag bit 2
\* is clear, whatever bit 1; True (detected) when bits 2 and 1 are set; False (not
\* detected) when bit 2 is set and bit 1 clear.
C6_SensorContact ==
    (parsed_data # <<>> /\ ~IsError(Parsed)) =>
        /\ Bit(data[1], 2) = 0 => Parsed.sensor_contact = "None"
        /\ (Bit(data[1], 2) = 1 /\ Bit(data[1], 1) = 1) => Parsed.sensor_contact = "True"
        /\ (Bit(data[1], 2) = 1 /\ Bit(data[1], 1) = 0) => Parsed.sensor_contact = "False"
        /\ data[1] \in {0, 2} => Parsed.sensor_contact = "None"
        /\ data[1] = 6 => Parsed.sensor_contact = "True"
        /\ data[1] \in {4, 5} => Parsed.sensor_contact = "False"

C6_Witness ==
    /\ parsed_data # <<>>
    /\ data = <<6, 80>>
    /\ Parsed.sensor_contact = "True"
    /\ Parsed.heart_rate = 80

\* C7: a payload of fewer than 2 bytes, the empty one included, yields the error
\* result and never a sample.
C7_TooShortFails ==
    (parsed_data # <<>> /\ Len(data) < 2)
        => (IsError(Parsed) /\ "heart_rate" \notin DOMAIN Parsed)

C7_Witness ==
    /\ parsed_data # <<>>
    /\ data = <<>>
    /\ IsError(Parsed)

\* The routes by which main() leaves the streaming loop.
StreamingExits == {"link_loss", "stream_error", "interrupt_stream"}

\* C8: after the streaming loop is left by any route, the file is never closed
\* while the link is still up, and the run ends with the file closed.
C8_OrderedTeardown ==
    route \in StreamingExits =>
        /\ csv_file = "closed" => link # "up"
        /\ pc = "done" => csv_file = "closed"

\* C9: no run that opened the file ends with the file open or the link up.
C9_SinkClosedAtExit ==
    (pc = "done" /\ csv_file # "none") => (csv_file = "closed" /\ link # "up")

\* C10: a notification that fails to parse changes neither the history, the file,
\* the control position nor the subscription, so later notifications are still
\* handled; after one malformed and one well-formed notification, in either
\* order, the history holds 1 sample and the file 1 data row.
C10_MalformedDiscarded ==
    [][(delivered' # delivered) =>
          /\ IsError(parsed_data'[1]) =>
                /\ heart_rate_history' = heart_rate_history
                /\ csv_rows' = csv_rows
                /\ pc' = pc /\ route' = route
                /\ subscribed' = subscribed /\ link' = link
                /\ csv_file' = csv_file /\ csv_writer' = csv_writer
          /\ Len(data') < 2 => IsError(parsed_data'[1])
          /\ (Len(delivered') = 2
                /\ Cardinality({i \in 1 .. 2 : Len(delivered'[i]) < 2}) = 1)
                => (Len(heart_rate_history') = 1 /\ Len(csv_rows') = 2)
      ]_vars

C10_Witness ==
    /\ Len(delivered) = 2
    /\ Len(delivered[1]) < 2
    /\ Len(delivered[2]) >= 2
    /\ Len(heart_rate_history) = 1
    /\ DataRows = <<<<2, heart_rate_history[1].heart_rate>>>>
    /\ pc = "streaming"

\* The control positions of the finally block and after it.
Teardown == {"finally", "disconnecting", "close_csv", "done"}

ZeroQualifying == \A k \in 1 .. Len(adverts) : ~adverts[k].hrs

\* C12: when the scan window elapses with no qualifying advertisement the run ends
\* as failed (no devices) with the file never opened, no device selected and no
\* connection attempted.
C12_NoDevicesNoFile ==
    (ZeroQualifying /\ pc \notin {"start", "scan_begin", "scanning"}
        /\ route \notin {"scan_failed", "interrupt_scan"}) =>
        /\ route = "no_devices"
        /\ pc \in Teardown \ {"disconnecting"}
        /\ csv_file = "none" /\ ~csv_writer /\ csv_rows = <<>>
        /\ selected_device = <<>>
        /\ ~monitor_client /\ link = "none" /\ ~disconnect_called

C12_Witness ==
    /\ route = "no_devices"
    /\ pc = "done"
    /\ Len(adverts) = 2
    /\ ZeroQualifying
    /\ csv_file = "none"

\* The session state of the design's state machine at each control position: the
\* scan runs from the call of scan_for_heart_rate_devices to the end of its
\* window, the session is Connected from the return of connect() to the return of
\* start_notify, and a run in teardown is Disconnected when it left the streaming
\* loop and Failed otherwise.
SessionState ==
    CASE pc = "start" -> "Idle"
      [] pc \in {"scan_begin", "scanning"} -> "Scanning"
      [] pc = "select" -> "AwaitingSelection"
      [] pc = "connecting" -> "Connecting"
      [] pc \in {"connected", "lookup", "subscribe"} -> "Connected"
      [] pc = "streaming" -> "Streaming"
      [] pc \in Teardown -> IF route \in StreamingExits THEN "Disconnected" ELSE "Failed"

Edges ==
    {<<"Idle", "Scanning">>,
     <<"Scanning", "AwaitingSelection">>, <<"Scanning", "Failed">>,
     <<"AwaitingSelection", "Connecting">>, <<"AwaitingSelection", "Failed">>,
     <<"Connecting", "Connected">>, <<"Connecting", "Failed">>,
     <<"Connected", "Streaming">>, <<"Connected", "Failed">>,
     <<"Streaming", "Disconnected">>}

PcOrder ==
    <<"start", "scan_begin", "scanning", "select", "connecting", "connected", "lookup",
      "subscribe", "streaming", "finally", "disconnecting", "close_csv", "done">>

PcRank(p) == CHOOSE i \in 1 .. Len(PcOrder) : PcOrder[i] = p

\* C13: the session state changes only along the edges of the state machine, so
\* Failed and Disconnected are never left and no state is entered twice; the
\* control position only moves forward, so the scan, the connect attempt and the
\* subscription each happen at most once; a link that went down never comes back
\* and the selected device is never replaced.
C13_StateMachine ==
    [][/\ SessionState' # SessionState => <<SessionState, SessionState'>> \in Edges
       /\ pc' # pc => PcRank(pc') > PcRank(pc)
       /\ link # "none" => link' # "none"
       /\ link = "down" => link' = "down"
       /\ link' = "up" /\ link # "up" => pc = "connecting"
       /\ subscribed' /\ ~subscribed => pc = "subscribe"
       /\ selected_device # <<>> => selected_device' = selected_device
      ]_vars

C13_Witness ==
    /\ SessionState = "Disconnected"
    /\ pc = "done"
    /\ route = "link_loss"
    /\ Len(delivered) = 2

\* C14: an interrupt at the scan wait, at the selection prompt or at the streaming
\* poll takes the run to teardown, and the run ends with close_csv_file called,
\* no file left open and the link not up.
C14_InterruptOrderly ==
    route \in {"interrupt_scan", "cancel", "interrupt_stream"} =>
        /\ pc \in Teardown
        /\ pc = "done" => (close_calls = 1 /\ csv_file # "open" /\ link # "up")

\* C15: every device of the scan result comes from an advertisement that carried
\* the Heart Rate Service, an address whose advertisements all lacked it has no
\* entry, and every address that sent a qualifying advertisement has its entry
\* whatever it sent before.
C15_OnlyHeartRateDevices ==
    /\ \A i \in 1 .. Len(devices_dict) :
          \E k \in 1 .. Len(adverts) : adverts[k].hrs /\ Device(adverts[k]) = devices_dict[i]
    /\ \A a \in Addresses :
          HasAddress(devices_dict, a) <=> \E k \in 1 .. Len(adverts) :
                                              adverts[k].hrs /\ adverts[k].address = a

C15_Witness ==
    /\ pc = "select"
    /\ Len(adverts) = 2
    /\ ~adverts[1].hrs /\ adverts[2].hrs
    /\ adverts[1].address = adverts[2].address
    /\ adverts[1].name # adverts[2].name
    /\ devices_dict = <<Device(adverts[2])>>

\* C16: a call of close_csv_file when no file is open, because none was opened or
\* because it is closed already, is a no-op: the file state stays what it was
\* ("none" or "closed", never an error) and the rows written stay the same.
C16_CloseIdempotent ==
    [][(close_calls' = close_calls + 1 /\ csv_file # "open") =>
          /\ csv_file' = csv_file
          /\ csv_file' \in {"none", "closed"}
          /\ csv_rows' = csv_rows
          /\ csv_writer' = csv_writer
          /\ heart_rate_history' = heart_rate_history
      ]_vars

C16_Witness ==
    /\ close_calls = 2
    /\ csv_file = "closed"
    /\ Len(csv_rows) = 3

\* A data row: the arrival time of a delivered notification and a heart rate.
IsDataRow(row) == row[1] \in 1 .. Len(delivered) /\ row[2] \in 0 .. 65535

\* C17: a file that was opened starts with the header row time,rate and holds no
\* other header row, so the header is written once and before every data row;
\* nothing is written while no file has been opened.
C17_HeaderOnceFirst ==
    /\ csv_file = "none" => (csv_rows = <<>> /\ ~csv_writer)
    /\ csv_file # "none" =>
          /\ csv_writer
          /\ Len(csv_rows) >= 1
          /\ csv_rows[1] = HeaderRow
          /\ Len(csv_rows[1]) = 2
          /\ \A k \in 2 .. Len(csv_rows) : IsDataRow(csv_rows[k])

C17_Witness ==
    /\ csv_file = "open"
    /\ Len(csv_rows) = 3
    /\ csv_rows[1] = HeaderRow
    /\ IsDataRow(csv_rows[2]) /\ IsDataRow(csv_rows[3])

\* C18: once the link is lost while the streaming loop polls it, the loop is
\* eventually left, teardown is reached and the run ends with the file closed.
C18_LinkLossEndsRun ==
    (pc = "streaming" /\ link = "down")
        ~> (pc = "done" /\ SessionState = "Disconnected" /\ csv_file = "closed"
               /\ close_calls = 1)

C18_Witness ==
    /\ pc = "done"
    /\ route = "link_loss"
    /\ link = "down"
    /\ ~disconnect_called
    /\ csv_file = "closed"

\* C19: a trim of the history removes nothing from the CSV file: the file holds
\* one data row for every sample ever accepted, each with the heart rate of its
\* notification, and the heart rates in the history are those of the last
\* Len(history) data rows in the same order.
C19_TrimKeepsRows ==
    LET acc  == AcceptedIndices
        rows == DataRows
        h    == heart_rate_history
    IN  /\ Len(rows) = Len(acc)
        /\ Len(rows) >= Len(h)
        /\ \A k \in 1 .. Len(rows) :
              rows[k] = <<acc[k], heart_rate_value(delivered[acc[k]])>>
        /\ [k \in 1 .. Len(h) |-> h[k].heart_rate]
              = [k \in 1 .. Len(h) |-> rows[Len(rows) - Len(h) + k][2]]

C19_Witness ==
    /\ Len(AcceptedIndices) = HistoryLimit + 1
    /\ Len(heart_rate_history) = HistoryKeep
    /\ Len(DataRows) = HistoryLimit + 1
    /\ DataRows[1] = <<1, heart_rate_value(delivered[1])>>

\* C20: the CSV file is opened at most once in a run, and only with a client
\* whose connect() has succeeded and before start_notify; a run that ends by a
\* cancelled selection or a failed connect never opens it, and a run whose device
\* lacks the service or the characteristic has opened it and leaves it with the
\* header row and no data row.
C20_OpenOnceAfterConnect ==
    [][/\ (csv_file' = "open" /\ csv_file # "open") =>
             /\ csv_file = "none"
             /\ pc = "connected"
             /\ monitor_client
             /\ link # "none"
             /\ ~subscribed
             /\ delivered = <<>>
       /\ (csv_file = "closed" => csv_file' = "closed")
       /\ (subscribed' \/ pc' \in {"subscribe", "streaming"}) => csv_file' # "none"
       /\ route' \in {"cancel", "connect_failed"} =>
             (csv_file' = "none" /\ csv_rows' = <<>>)
       /\ route' = "no_service" =>
             (csv_file' # "none" /\ csv_rows' = <<HeaderRow>>)
      ]_vars

C20_Witness ==
    /\ pc = "done"
    /\ route = "no_service"
    /\ monitor_client
    /\ ~subscribed
    /\ csv_file # "none"
    /\ csv_rows = <<HeaderRow>>

====
